---- MODULE Spec2Model ----
(***************************************************************************)
(* sqlite-rest: a read-only REST server over a SQLite database             *)
(* (cmd/sqlite-rest/main.go).  The module models the process life cycle    *)
(* (NewAPIServer, loadTableInfo, setupRoutes, Serve, Shutdown), the gin    *)
(* handler chain (authMiddleware, handleAPIInfo, handleTableQuery,         *)
(* handleRecordQuery) and the database engine the handlers talk to.        *)
(***************************************************************************)
EXTENDS Integers, Sequences, FiniteSets, TLC

VARIABLES
    pc,        \* position of main(): start, loadTableInfo, loadRows, setupRoutes,
               \* created, waitQuit, shutdown, draining, exited
    config,    \* Config.Username / Config.Password
    db,        \* *sql.DB: "none", "open", "closed"
    cursor,    \* loadTableInfo: index of the next row of the table-name result set
    tables,    \* APIServer.tables
    router,    \* gin.Engine: [Handlers: global middleware, trees: route -> chain]
    srv,       \* APIServer.server / listener: "none", "listening", "closed"
    req,       \* the request being served
    resp,      \* the response written for req
    sent,      \* SQL statements handed to the engine for req, with their arguments
    reported,  \* the first engine error reported to the handler for req
    hist       \* what happened so far: loadTableInfo calls, introspection errors, exit

vars == <<pc, config, db, cursor, tables, router, srv, req, resp, sent, reported, hist>>

(***************************************************************************)
(* Strings.  Go strings are TLA+ strings; the ones the program (or the     *)
(* engine) inspects character by character are spelled out here.           *)
(***************************************************************************)
Chars(s) ==
    CASE s = ""        -> <<>>
      [] s = "0"       -> <<"0">>
      [] s = "1"       -> <<"1">>
      [] s = "2"       -> <<"2">>
      [] s = "5"       -> <<"5">>
      [] s = "7"       -> <<"7">>
      [] s = "30"      -> <<"3", "0">>
      [] s = "41"      -> <<"4", "1">>
      [] s = "007"     -> <<"0", "0", "7">>
      [] s = "999"     -> <<"9", "9", "9">>
      [] s = "+2"      -> <<"+", "2">>
      [] s = "-1"      -> <<"-", "1">>
      [] s = "-"       -> <<"-">>
      [] s = "1a"      -> <<"1", "a">>
      [] s = "abc"     -> <<"a", "b", "c">>
      [] s = "Bo"      -> <<"B", "o">>
      [] s = "Ann"     -> <<"A", "n", "n">>
      [] s = "99999999999999999999" ->
            <<"9","9","9","9","9","9","9","9","9","9",
              "9","9","9","9","9","9","9","9","9","9">>
      [] s = "9223372036854775808" ->
            <<"9","2","2","3","3","7","2","0","3","6",
              "8","5","4","7","7","5","8","0","8">>
      [] s = "users"   -> <<"u", "s", "e", "r", "s">>
      [] s = "logs"    -> <<"l", "o", "g", "s">>
      [] s = "notes"   -> <<"n", "o", "t", "e", "s">>
      [] s = "sqlite3" -> <<"s", "q", "l", "i", "t", "e", "3">>
      [] s = "sqlite_sequence" ->
            <<"s","q","l","i","t","e","_","s","e","q","u","e","n","c","e">>
      [] s = "idx_logs_id" ->
            <<"i","d","x","_","l","o","g","s","_","i","d">>
      [] s = "sqlite_%" -> <<"s", "q", "l", "i", "t", "e", "_", "%">>
      [] s = "sqlite_" -> <<"s", "q", "l", "i", "t", "e", "_">>

DigitVal(c) ==
    CASE c = "0" -> 0 [] c = "1" -> 1 [] c = "2" -> 2 [] c = "3" -> 3
      [] c = "4" -> 4 [] c = "5" -> 5 [] c = "6" -> 6 [] c = "7" -> 7
      [] c = "8" -> 8 [] c = "9" -> 9 [] OTHER -> -1

IsDigits(cs) == \A i \in 1..Len(cs) : DigitVal(cs[i]) >= 0

RECURSIVE StripZeros(_)
StripZeros(cs) ==
    IF Len(cs) > 1 /\ cs[1] = "0" THEN StripZeros(Tail(cs)) ELSE cs

RECURSIVE DecValue(_)
DecValue(cs) ==
    IF cs = <<>> THEN 0
    ELSE 10 * DecValue(SubSeq(cs, 1, Len(cs) - 1)) + DigitVal(cs[Len(cs)])

\* a > b for two digit strings of the same length
RECURSIVE DigitsGreater(_, _)
DigitsGreater(a, b) ==
    IF a = <<>> THEN FALSE
    ELSE IF DigitVal(a[1]) # DigitVal(b[1]) THEN DigitVal(a[1]) > DigitVal(b[1])
    ELSE DigitsGreater(Tail(a), Tail(b))

\* the decimal digits of 1<<63 - 1 and of 1<<63
MaxInt64Digits == Chars("9223372036854775808")

\* ParseInt on the digits ds after the sign: a syntax error unless ds is one
\* or more decimal digits, a range error unless the value fits 64 bits
ParseDigits(neg, ds, mag) ==
    IF \/ ds = <<>>
       \/ ~IsDigits(ds)
       \/ Len(mag) > Len(MaxInt64Digits)
       \/ /\ Len(mag) = Len(MaxInt64Digits)
          /\ \/ DigitsGreater(mag, MaxInt64Digits)
             \/ ~neg /\ mag = MaxInt64Digits
    THEN [err |-> TRUE, val |-> 0]
    ELSE [err |-> FALSE, val |-> IF neg THEN 0 - DecValue(mag) ELSE DecValue(mag)]

Unsigned(cs) == IF cs # <<>> /\ cs[1] \in {"+", "-"} THEN Tail(cs) ELSE cs

AtoiChars(cs) ==
    ParseDigits(cs # <<>> /\ cs[1] = "-", Unsigned(cs), StripZeros(Unsigned(cs)))

\* strconv.Atoi: optional sign, one or more decimal digits, value within int
\* (64 bits); anything else is an error
Atoi(s) == AtoiChars(Chars(s))

(***************************************************************************)
(* The database file: the schema store and the rows of each table.         *)
(***************************************************************************)
IntV(n)  == [t |-> "int",  v |-> n]
TextV(s) == [t |-> "text", v |-> s]
BlobV(s) == [t |-> "blob", v |-> s]

\* sqlite_master, in rowid order
Master ==
    << [type |-> "table", name |-> "users"],
       [type |-> "table", name |-> "sqlite_sequence"],
       [type |-> "table", name |-> "logs"],
       [type |-> "index", name |-> "idx_logs_id"],
       [type |-> "table", name |-> "sqlite3"],
       [type |-> "table", name |-> "notes"] >>

Col(n, ty, nn, pk) == [name |-> n, type |-> ty, notnull |-> nn, pk |-> pk]

\* PRAGMA table_info rows of each table, in column order
Schema(t) ==
    CASE t = "users" -> << Col("id", "INTEGER", 1, 1), Col("name", "TEXT", 0, 0),
                           Col("age", "INTEGER", 0, 0) >>
      [] t = "logs"  -> << Col("id", "INTEGER", 0, 0), Col("msg", "TEXT", 0, 0) >>
      [] t = "notes" -> << Col("slug", "TEXT", 1, 1), Col("body", "BLOB", 0, 0) >>
      [] t = "sqlite3" -> << Col("id", "INTEGER", 0, 0) >>
      [] t = "sqlite_sequence" -> << Col("name", "", 0, 0), Col("seq", "", 0, 0) >>

ColumnNames(t) == { Schema(t)[i].name : i \in 1..Len(Schema(t)) }

\* the rows of each table, in rowid order
Rows(t) ==
    CASE t = "users" -> << [id |-> IntV(1), name |-> TextV("Ann"), age |-> IntV(30)],
                           [id |-> IntV(2), name |-> TextV("Bo"),  age |-> IntV(41)] >>
      [] t = "logs"  -> << [id |-> IntV(7), msg |-> TextV("abc")],
                           [id |-> IntV(1), msg |-> TextV("Bo")],
                           [id |-> IntV(7), msg |-> TextV("Ann")] >>
      [] t = "notes" -> << [slug |-> TextV("abc"), body |-> BlobV("Bo")] >>
      [] OTHER       -> << >>

(***************************************************************************)
(* The engine.                                                             *)
(***************************************************************************)
Lower(c) ==
    CASE c = "S" -> "s" [] c = "Q" -> "q" [] c = "L" -> "l" [] c = "I" -> "i"
      [] c = "T" -> "t" [] c = "E" -> "e" [] c = "B" -> "b" [] c = "A" -> "a"
      [] OTHER -> c

\* x LIKE pattern: % matches any run of characters, _ any one character,
\* every other character matches itself without regard to ASCII case
RECURSIVE Like(_, _)
Like(pat, x) ==
    IF pat = <<>> THEN x = <<>>
    ELSE IF pat[1] = "%"
         THEN Like(Tail(pat), x) \/ (x # <<>> /\ Like(pat, Tail(x)))
    ELSE IF x = <<>> THEN FALSE
    ELSE IF pat[1] = "_" THEN Like(Tail(pat), Tail(x))
    ELSE Lower(pat[1]) = Lower(x[1]) /\ Like(Tail(pat), Tail(x))

\* SQL text is the sequence of pieces fmt.Sprintf and + put together: the
\* literal pieces of the format strings and the interpolated operands
Lit(s) == [k |-> "lit", v |-> s]
Str(s) == [k |-> "%s",  v |-> s]
Dec(n) == [k |-> "%d",  v |-> n]

IsLit(tok, s) == tok.k = "lit" /\ tok.v = s

Drop(s, n) == SubSeq(s, n + 1, Len(s))
Take(s, n) == SubSeq(s, 1, IF n < Len(s) THEN n ELSE Len(s))

\* the column names of  c1 = ? AND c2 = ? ...
RECURSIVE CondCols(_)
CondCols(r) ==
    IF Len(r) >= 2 /\ IsLit(r[2], "= ?")
    THEN <<r[1].v>> \o (IF Len(r) >= 3 /\ IsLit(r[3], "AND")
                        THEN CondCols(Drop(r, 3)) ELSE <<>>)
    ELSE <<>>

\* the statement a SQL text denotes
ParsePage(text, conds, order, r) ==
    [count  |-> IsLit(text[1], "SELECT COUNT(*) FROM"),
     table  |-> text[2].v,
     conds  |-> conds,
     order  |-> order,
     limit  |-> IF r # <<>> /\ IsLit(r[1], "LIMIT") THEN r[2].v ELSE -1,
     offset |-> IF r # <<>> /\ IsLit(r[1], "LIMIT") THEN r[4].v ELSE 0]

ParseOrder(text, conds, r) ==
    IF r # <<>> /\ IsLit(r[1], "ORDER BY")
    THEN ParsePage(text, conds, <<r[2].v>>, Drop(r, 2))
    ELSE ParsePage(text, conds, <<>>, r)

ParseWhere(text, conds) == ParseOrder(text, conds, Drop(text, 2 + 3 * Len(conds)))

ParseSelect(text) ==
    ParseWhere(text, IF Len(text) > 2 /\ IsLit(text[3], "WHERE")
                     THEN CondCols(Drop(text, 3)) ELSE <<>>)

\* text bound to a placeholder takes the affinity of the column it is compared
\* with: a column declared INTEGER turns well-formed integer text into an integer
AffinityChars(decl, arg, cs, ds) ==
    IF decl = "INTEGER" /\ ds # <<>> /\ IsDigits(ds) /\ Len(StripZeros(ds)) < 10
    THEN IntV(IF cs[1] = "-" THEN 0 - DecValue(ds) ELSE DecValue(ds))
    ELSE TextV(arg)

ApplyAffinity(decl, arg) == AffinityChars(decl, arg, Chars(arg), Unsigned(Chars(arg)))

SqlEq(a, b) == a.t = b.t /\ a.v = b.v

DeclType(t, c) == Schema(t)[CHOOSE i \in 1..Len(Schema(t)) : Schema(t)[i].name = c].type

Ascii(c) ==
    CASE c = "A" -> 65 [] c = "B" -> 66 [] c = "a" -> 97 [] c = "b" -> 98
      [] c = "c" -> 99 [] c = "n" -> 110 [] c = "o" -> 111 [] OTHER -> 0

RECURSIVE BytesLess(_, _)
BytesLess(a, b) ==
    IF b = <<>> THEN FALSE
    ELSE IF a = <<>> THEN TRUE
    ELSE IF Ascii(a[1]) # Ascii(b[1]) THEN Ascii(a[1]) < Ascii(b[1])
    ELSE BytesLess(Tail(a), Tail(b))

ClassRank(x) == CASE x.t = "int" -> 1 [] x.t = "text" -> 2 [] x.t = "blob" -> 3

\* the engine's sort order: integers before text before blobs, text by memcmp
ValueLess(a, b) ==
    IF ClassRank(a) # ClassRank(b) THEN ClassRank(a) < ClassRank(b)
    ELSE IF a.t = "int" THEN a.v < b.v
    ELSE BytesLess(Chars(a.v), Chars(b.v))

RECURSIVE InsertRow(_, _, _)
InsertRow(row, sorted, col) ==
    IF sorted = <<>> THEN <<row>>
    ELSE IF ValueLess(row[col], sorted[1][col]) THEN <<row>> \o sorted
    ELSE <<sorted[1]>> \o InsertRow(row, Tail(sorted), col)

RECURSIVE SortRows(_, _)
SortRows(rows, col) ==
    IF rows = <<>> THEN <<>>
    ELSE InsertRow(rows[Len(rows)], SortRows(Take(rows, Len(rows) - 1), col), col)

RowMatches(row, t, conds, args) ==
    \A i \in 1..Len(conds) :
        SqlEq(row[conds[i]], ApplyAffinity(DeclType(t, conds[i]), args[i]))

RECURSIVE FilterRows(_, _, _, _)
FilterRows(rows, t, conds, args) ==
    IF rows = <<>> THEN <<>>
    ELSE (IF RowMatches(rows[1], t, conds, args) THEN <<rows[1]>> ELSE <<>>)
             \o FilterRows(Tail(rows), t, conds, args)

\* preparing the statement fails when it names a column the table does not have
\* or when the number of arguments differs from the number of placeholders
PrepareFails(st, args) ==
    \/ \E i \in 1..Len(st.conds) : st.conds[i] \notin ColumnNames(st.table)
    \/ \E i \in 1..Len(st.order) : st.order[i] \notin ColumnNames(st.table)
    \/ Len(args) # Len(st.conds)

\* OFFSET and LIMIT
Window(st, ordered) ==
    IF st.limit < 0 THEN Drop(ordered, st.offset)
    ELSE Take(Drop(ordered, st.offset), st.limit)

Project(st, matched) ==
    IF st.count THEN << [count |-> IntV(Len(matched))] >>
    ELSE IF st.order = <<>> THEN Window(st, matched)
    ELSE Window(st, SortRows(matched, st.order[1]))

\* the rows a statement that prepares yields
ResultRows(st, args) ==
    Project(st, FilterRows(Rows(st.table), st.table, st.conds, args))

\* an engine failure that no statement text explains (I/O error, corruption,
\* interruption): at the start of the query, or when the cursor is advanced to
\* / scanned at its at-th row
MaxFaultAt == 2

NoFault == [kind |-> "none", at |-> 0]

Faults ==
    {NoFault, [kind |-> "query", at |-> 0]}
        \cup { [kind |-> k, at |-> i] : k \in {"next", "scan"}, i \in 1..MaxFaultAt }

\* the faults a caller that reads one row only can meet
FirstRowFaults == { f \in Faults : f.at <= 1 }

\* the loop  for rows.Next() { rows.Scan(...) }  over the result set rs
Iterate(rs, fault) ==
    IF fault.kind = "next" /\ fault.at <= Len(rs) + 1
    THEN [err |-> FALSE, rows |-> Take(rs, fault.at - 1), stop |-> "next"]
    ELSE IF fault.kind = "scan" /\ fault.at <= Len(rs)
    THEN [err |-> FALSE, rows |-> Take(rs, fault.at - 1), stop |-> "scan"]
    ELSE [err |-> FALSE, rows |-> rs, stop |-> "none"]

Execute(st, args, fault) ==
    IF PrepareFails(st, args) \/ fault.kind = "query"
    THEN [err |-> TRUE, rows |-> <<>>, stop |-> "none"]
    ELSE Iterate(ResultRows(st, args), fault)

\* db.Query followed by  for rows.Next() { rows.Scan(...) } :
\* err: db.Query returned an error; rows: the rows scanned; stop: what ended
\* the loop ("none": the result set was exhausted)
DbQuery(text, args, fault) == Execute(ParseSelect(text), args, fault)

(***************************************************************************)
(* Schema introspection (loadTableInfo).                                   *)
(***************************************************************************)
\* WHERE type='table' AND name NOT LIKE 'sqlite_%'
IsUserTable(m) == m.type = "table" /\ ~Like(Chars("sqlite_%"), Chars(m.name))

RECURSIVE SelectNames(_)
SelectNames(ms) ==
    IF ms = <<>> THEN <<>>
    ELSE (IF IsUserTable(ms[1]) THEN <<ms[1].name>> ELSE <<>>) \o SelectNames(Tail(ms))

\* the result set of the table-name query
TableNames == SelectNames(Master)

ColumnInfo(c) ==
    [Name |-> c.name, Type |-> c.type, NotNull |-> (c.notnull = 1),
     PrimaryKey |-> (c.pk = 1)]

TableInfo(name, cols) ==
    [Name |-> name, Columns |-> [i \in 1..Len(cols) |-> ColumnInfo(cols[i])]]

LoadFaults ==
    {NoFault, [kind |-> "scan", at |-> 0], [kind |-> "pragmaQuery", at |-> 0]}
        \cup { [kind |-> k, at |-> i] :
                  k \in {"pragmaNext", "pragmaScan"}, i \in 1..MaxFaultAt }

\* one iteration of the loop over the table names: "return" (return err),
\* or "append" with the columns scanned
LoadOne(name, fault) ==
    LET cols == Schema(name)
    IN  IF fault.kind \in {"scan", "pragmaQuery"}
        THEN [do |-> "return", cols |-> <<>>, fired |-> TRUE]
        ELSE IF fault.kind = "pragmaScan" /\ fault.at <= Len(cols)
        THEN [do |-> "return", cols |-> <<>>, fired |-> TRUE]
        ELSE IF fault.kind = "pragmaNext" /\ fault.at <= Len(cols) + 1
        THEN [do |-> "append", cols |-> Take(cols, fault.at - 1), fired |-> TRUE]
        ELSE [do |-> "append", cols |-> cols, fired |-> FALSE]

(***************************************************************************)
(* The gin engine.                                                         *)
(***************************************************************************)
Handler(fn, t) == [fn |-> fn, table |-> t]
Route(kind, t) == [kind |-> kind, table |-> t]

NewRouter == [Handlers |-> <<>>, trees |-> [p \in {} |-> <<>>]]

\* engine.Use: later registrations run the middleware first
Use(r, mw) == [r EXCEPT !.Handlers = Append(@, mw)]

\* group.GET: the chain is the middleware installed so far, then the handler
GET(r, route, h) == [r EXCEPT !.trees = (route :> (r.Handlers \o <<h>>)) @@ @]

RECURSIVE RegisterTables(_, _)
RegisterTables(r, tbls) ==
    IF tbls = <<>> THEN r
    ELSE RegisterTables(
            GET(GET(r, Route("list", tbls[1].Name),
                       Handler("handleTableQuery", tbls[1].Name)),
                Route("record", tbls[1].Name),
                Handler("handleRecordQuery", tbls[1].Name)),
            Tail(tbls))

setupRoutes(tbls) ==
    RegisterTables(
        GET(Use(NewRouter, Handler("authMiddleware", "")),
            Route("root", ""), Handler("handleAPIInfo", "")),
        tbls)

\* the route a request path selects: /, /<table>, /<table>/<id>
RouteOf(path) ==
    IF Len(path) = 0 THEN Route("root", "")
    ELSE IF Len(path) = 1 THEN Route("list", path[1])
    ELSE Route("record", path[1])

\* the handlers run for a path; an unknown path runs the middleware and then
\* the default 404 handler
ChainOf(r, path) ==
    IF RouteOf(path) \in DOMAIN r.trees THEN r.trees[RouteOf(path)]
    ELSE r.Handlers \o <<Handler("notFound", "")>>

(***************************************************************************)
(* The handlers.                                                           *)
(***************************************************************************)
Response(status, body) == [status |-> status, body |-> body]
NoResponse == Response(0, <<>>)
ErrorBody(e) == [error |-> e]
Statement(text, args) == [text |-> text, args |-> args]

\* || in place of && in the test that skips the check
authMiddlewareSkipsOnEither(cfg, creds) ==
    IF cfg.Username = "" \/ cfg.Password = "" THEN "next"
    ELSE IF ~creds.has \/ creds.user # cfg.Username \/ creds.pass # cfg.Password
    THEN "abort"
    ELSE "next"

\* authMiddleware: "next" calls the rest of the chain, "abort" answers 401
authMiddleware(cfg, creds) ==
    IF cfg.Username = "" /\ cfg.Password = "" THEN "next"
    ELSE IF ~creds.has \/ creds.user # cfg.Username \/ creds.pass # cfg.Password
    THEN "abort"
    ELSE "next"

\* c.Query(key): the first value of the key, "" when the key is absent
Query(q, key) == IF key \in DOMAIN q THEN q[key][1] ELSE ""

DefaultLimit == 100
DefaultOffset == 0

\* l >= 0 in place of l > 0
LimitOfNonNegative(limitStr, l) ==
    IF limitStr # "" /\ ~l.err /\ l.val >= 0 THEN l.val ELSE DefaultLimit

LimitOf(limitStr, l) ==
    IF limitStr # "" /\ ~l.err /\ l.val > 0 THEN l.val ELSE DefaultLimit

OffsetOf(offsetStr, o) ==
    IF offsetStr # "" /\ ~o.err /\ o.val >= 0 THEN o.val ELSE DefaultOffset

EffectiveLimit(q) == LimitOf(Query(q, "limit"), Atoi(Query(q, "limit")))

EffectiveOffset(q) == OffsetOf(Query(q, "offset"), Atoi(Query(q, "offset")))

RECURSIVE Perms(_)
Perms(S) ==
    IF S = {} THEN {<<>>}
    ELSE UNION { { <<x>> \o p : p \in Perms(S \ {x}) } : x \in S }

\* the order key not excluded
IsFilterKeyWithOrder(key) == key # "limit" /\ key # "offset"

IsFilterKey(key) == key # "limit" /\ key # "offset" /\ key # "order"

\* the loop over c.Request.URL.Query(), which ranges over the keys in the
\* order ord: whereConditions (the column pieces) and params
AppendFilter(q, key, rest) ==
    IF IsFilterKey(key)
    THEN [conds  |-> << <<Str(key), Lit("= ?")>> >> \o rest.conds,
          params |-> <<q[key][1]>> \o rest.params]
    ELSE rest

RECURSIVE WhereLoop(_, _)
WhereLoop(q, ord) ==
    IF ord = <<>> THEN [conds |-> <<>>, params |-> <<>>]
    ELSE AppendFilter(q, ord[1], WhereLoop(q, Tail(ord)))

\* strings.Join(whereConditions, " AND ")
RECURSIVE Join(_, _)
Join(pieces, sep) ==
    IF pieces = <<>> THEN <<>>
    ELSE IF Len(pieces) = 1 THEN pieces[1]
    ELSE pieces[1] \o <<sep>> \o Join(Tail(pieces), sep)

CountText(tableName) == <<Lit("SELECT COUNT(*) FROM"), Str(tableName)>>

ListText(tableName, conds, order, limit, offset) ==
    <<Lit("SELECT * FROM"), Str(tableName)>>
        \o (IF Len(conds) > 0 THEN <<Lit("WHERE")>> \o Join(conds, Lit("AND")) ELSE <<>>)
        \o (IF order # "" THEN <<Lit("ORDER BY"), Str(order)>> ELSE <<>>)
        \o <<Lit("LIMIT"), Dec(limit), Lit("OFFSET"), Dec(offset)>>

RecordText(tableName) ==
    <<Lit("SELECT * FROM"), Str(tableName), Lit("WHERE"), Lit("id"), Lit("= ?")>>

\* []byte values become strings, everything else is passed through
Decode(row) ==
    [c \in DOMAIN row |-> IF row[c].t = "blob" THEN TextV(row[c].v) ELSE row[c]]

DecodeAll(rows) == [i \in 1..Len(rows) |-> Decode(rows[i])]

ListResponse(limit, offset, count, cnt, data, out) ==
    IF cnt.err \/ cnt.rows = <<>>
    THEN [resp |-> Response(500, ErrorBody("count")),
          sent |-> <<count>>, reported |-> "count"]
    ELSE IF out.err
    THEN [resp |-> Response(500, ErrorBody("query")),
          sent |-> <<count, data>>, reported |-> "query"]
    ELSE IF out.stop = "scan"
    THEN [resp |-> Response(500, ErrorBody("scan")),
          sent |-> <<count, data>>, reported |-> "scan"]
    ELSE [resp |-> Response(200, [total  |-> cnt.rows[1].count.v,
                                  offset |-> offset,
                                  limit  |-> limit,
                                  data   |-> DecodeAll(out.rows)]),
          sent |-> <<count, data>>,
          reported |-> IF out.stop = "next" THEN "next" ELSE "none"]

CountStatement(tableName) == Statement(CountText(tableName), <<>>)

DataStatement(tableName, q, w, limit, offset) ==
    Statement(ListText(tableName, w.conds, Query(q, "order"), limit, offset), w.params)

RunList(limit, offset, count, data, cfault, dfault) ==
    ListResponse(limit, offset,
                 count, DbQuery(count.text, count.args, cfault),
                 data, DbQuery(data.text, data.args, dfault))

Paged(tableName, q, ord, limit, offset, cfault, dfault) ==
    RunList(limit, offset, CountStatement(tableName),
            DataStatement(tableName, q, WhereLoop(q, ord), limit, offset),
            cfault, dfault)

\* handleTableQuery(tableName) on the query string q, the map ranged over in
\* the order ord, under the engine faults cfault (count query) and dfault
handleTableQuery(tableName, q, ord, cfault, dfault) ==
    Paged(tableName, q, ord, EffectiveLimit(q), EffectiveOffset(q), cfault, dfault)

RecordResponse(stmt, out) ==
    IF out.err
    THEN [resp |-> Response(500, ErrorBody("query")),
          sent |-> <<stmt>>, reported |-> "query"]
    ELSE IF out.rows = <<>> /\ out.stop # "scan"
    THEN [resp |-> Response(404, ErrorBody("Record not found")),
          sent |-> <<stmt>>,
          reported |-> IF out.stop = "next" THEN "next" ELSE "none"]
    ELSE IF out.rows = <<>>
    THEN [resp |-> Response(500, ErrorBody("scan")),
          sent |-> <<stmt>>, reported |-> "scan"]
    ELSE [resp |-> Response(200, Decode(out.rows[1])),
          sent |-> <<stmt>>, reported |-> "none"]

RunRecord(stmt, fault) == RecordResponse(stmt, DbQuery(stmt.text, stmt.args, fault))

\* handleRecordQuery(tableName) on the path parameter id
handleRecordQuery(tableName, id, fault) ==
    RunRecord(Statement(RecordText(tableName), <<id>>), fault)

\* handleAPIInfo: the catalog and the two endpoints of each table
handleAPIInfo(tbls) ==
    Response(200,
        [tables    |-> tbls,
         endpoints |-> [i \in 1..(2 * Len(tbls)) |->
                          IF i % 2 = 1
                          THEN <<"GET /%s", tbls[(i + 1) \div 2].Name>>
                          ELSE <<"GET /%s/:id", tbls[i \div 2].Name>>]])

(***************************************************************************)
(* Inputs.                                                                 *)
(***************************************************************************)
Configs == [Username : {"", "admin"}, Password : {"", "secret"}]

NoCreds == [has |-> FALSE, user |-> "", pass |-> ""]
Creds ==
    { NoCreds,
      [has |-> TRUE, user |-> "admin", pass |-> "secret"],
      [has |-> TRUE, user |-> "admin", pass |-> ""],
      [has |-> TRUE, user |-> "", pass |-> "secret"] }

EmptyQuery == [k \in {} |-> <<>>]

\* paths name tables of the database, catalogued or not
PathTables == {"users", "logs", "notes", "sqlite_sequence"}
IdInputs == {"1", "7", "999", "abc"}

\* the query strings of the life-cycle specification
SmallQueries ==
    { EmptyQuery,
      "age" :> <<"41">>,
      ("limit" :> <<"1">>) @@ ("order" :> <<"name">>),
      ("offset" :> <<"-1">>) @@ ("bogus" :> <<"1">>) }

Requests ==
    { [path |-> <<>>, query |-> EmptyQuery] }
        \cup { [path |-> <<t>>, query |-> q] : t \in PathTables, q \in SmallQueries }
        \cup { [path |-> <<t, id>>, query |-> EmptyQuery] : t \in PathTables, id \in IdInputs }

\* the query strings of the query-builder specification
LimitInputs == {"0", "1", "2", "007", "+2", "-1", "-", "1a", "abc",
                "99999999999999999999", "9223372036854775808"}
OffsetInputs == {"0", "1", "2", "007", "+2", "-1", "abc", "99999999999999999999"}

Opt(key, values) == {EmptyQuery} \cup { key :> v : v \in values }

FilterInputs ==
    { EmptyQuery,
      "age" :> <<"41">>,
      "age" :> <<"30", "41">>,
      "name" :> <<"Bo">>,
      ("age" :> <<"41">>) @@ ("name" :> <<"Bo">>),
      ("age" :> <<"30">>) @@ ("name" :> <<"Bo">>),
      "bogus" :> <<"1">>,
      ("Limit" :> <<"5">>) @@ ("age" :> <<"41">>) }

PagingQueries ==
    { l @@ o @@ f :
        l \in Opt("limit", { <<x>> : x \in LimitInputs } \cup { <<"">>, <<"abc", "2">> }),
        o \in Opt("offset", { <<x>> : x \in OffsetInputs } \cup { <<"">> }),
        f \in { EmptyQuery, "age" :> <<"41">> } }

FilterQueries ==
    { l @@ o @@ r @@ f :
        l \in Opt("limit", { <<"1">> }),
        o \in Opt("offset", { <<"1">> }),
        r \in Opt("order", { <<"name">>, <<"bogus">> }),
        f \in FilterInputs }

RichQueries == PagingQueries \cup FilterQueries

(***************************************************************************)
(* The process.                                                            *)
(***************************************************************************)
MaxLoadFaults == 1

IdleRequest ==
    [stage |-> "idle", idx |-> 0, path |-> <<>>, creds |-> NoCreds, query |-> EmptyQuery]

NoHistory == [loads |-> 0, loadFaults |-> 0, exit |-> "none"]

Init ==
    /\ pc = "start"
    /\ config \in Configs
    /\ db = "none"
    /\ cursor = 0
    /\ tables = <<>>
    /\ router = NewRouter
    /\ srv = "none"
    /\ req = IdleRequest
    /\ resp = NoResponse
    /\ sent = <<>>
    /\ reported = "none"
    /\ hist = NoHistory

\* log.Fatal / log.Fatalf / panic / return from main: the process is gone
Exit(why) == /\ pc' = "exited"
             /\ hist' = [hist EXCEPT !.exit = why]

\* NewAPIServer: sql.Open, db.Ping, configureDatabase
OpenDatabase ==
    /\ pc = "start"
    /\ \E ok \in BOOLEAN :
         IF ok THEN /\ db' = "open"
                    /\ pc' = "loadTableInfo"
                    /\ hist' = hist
               ELSE /\ db' = db
                    /\ Exit("startup")
    /\ UNCHANGED <<config, cursor, tables, router, srv, req, resp, sent, reported>>

\* loadTableInfo: the table-name query
LoadQuery ==
    /\ pc = "loadTableInfo"
    /\ \E ok \in BOOLEAN :
         IF ok THEN /\ pc' = "loadRows"
                    /\ cursor' = 1
                    /\ hist' = [hist EXCEPT !.loads = @ + 1]
               ELSE /\ pc' = "exited"
                    /\ cursor' = cursor
                    /\ hist' = [hist EXCEPT !.loads = @ + 1, !.loadFaults = @ + 1,
                                            !.exit = "startup"]
    /\ UNCHANGED <<config, db, tables, router, srv, req, resp, sent, reported>>

LoadStep(one) ==
    /\ one.fired => hist.loadFaults < MaxLoadFaults
    /\ IF one.do = "return"
       THEN /\ pc' = "exited"
            /\ hist' = [hist EXCEPT !.loadFaults = @ + 1, !.exit = "startup"]
            /\ UNCHANGED <<tables, cursor>>
       ELSE /\ tables' = Append(tables, TableInfo(TableNames[cursor], one.cols))
            /\ cursor' = cursor + 1
            /\ hist' = [hist EXCEPT !.loadFaults = IF one.fired THEN @ + 1 ELSE @]
            /\ pc' = pc

\* loadTableInfo: one iteration of  for rows.Next() { ... }
LoadRow ==
    /\ pc = "loadRows"
    /\ cursor <= Len(TableNames)
    /\ \E fault \in LoadFaults :
         LoadStep(LoadOne(TableNames[cursor], fault))
    /\ UNCHANGED <<config, db, router, srv, req, resp, sent, reported>>

\* loadTableInfo: rows.Next() returns false because the engine failed; the
\* loop ends and the function returns nil
LoadNextFails ==
    /\ pc = "loadRows"
    /\ hist.loadFaults < MaxLoadFaults
    /\ pc' = "setupRoutes"
    /\ hist' = [hist EXCEPT !.loadFaults = @ + 1]
    /\ UNCHANGED <<config, db, cursor, tables, router, srv, req, resp, sent, reported>>

\* loadTableInfo: rows.Next() returns false at the end of the result set
LoadDone ==
    /\ pc = "loadRows"
    /\ cursor > Len(TableNames)
    /\ pc' = "setupRoutes"
    /\ UNCHANGED <<config, db, cursor, tables, router, srv, req, resp, sent,
                   reported, hist>>

\* NewAPIServer: server.setupRoutes(), return server
SetupRoutes ==
    /\ pc = "setupRoutes"
    /\ router' = setupRoutes(tables)
    /\ pc' = "created"
    /\ UNCHANGED <<config, db, cursor, tables, srv, req, resp, sent, reported, hist>>

\* main: signal.Notify, go func() { server.Serve() }(), <-quit
StartServing ==
    /\ pc = "created"
    /\ pc' = "waitQuit"
    /\ UNCHANGED <<config, db, cursor, tables, router, srv, req, resp, sent,
                   reported, hist>>

\* the goroutine: Serve sets s.server and listens; a listen error is fatal
Serve ==
    /\ pc \in {"waitQuit", "shutdown"}
    /\ srv = "none"
    /\ \E ok \in BOOLEAN :
         IF ok THEN /\ srv' = "listening"
                    /\ UNCHANGED <<pc, hist>>
               ELSE /\ srv' = srv
                    /\ Exit("listen")
    /\ UNCHANGED <<config, db, cursor, tables, router, req, resp, sent, reported>>

\* main: a value arrives on quit
Signal ==
    /\ pc = "waitQuit"
    /\ pc' = "shutdown"
    /\ UNCHANGED <<config, db, cursor, tables, router, srv, req, resp, sent, reported,
                   hist>>

\* Shutdown: s.server.Shutdown(ctx) closes the listener and waits; s.server is
\* nil until the goroutine has run Serve, and calling Shutdown on it panics
Shutdown ==
    /\ pc = "shutdown"
    /\ IF srv = "none"
       THEN /\ Exit("panic")
            /\ srv' = srv
       ELSE /\ pc' = "draining"
            /\ srv' = "closed"
            /\ hist' = hist
    /\ UNCHANGED <<config, db, cursor, tables, router, req, resp, sent, reported>>

\* Shutdown: every connection is idle, s.server.Shutdown returns nil, then
\* s.db.Close() and main returns
DrainDone ==
    /\ pc = "draining"
    /\ req.stage # "chain"
    /\ db' = "closed"
    /\ Exit("drained")
    /\ UNCHANGED <<config, cursor, tables, router, srv, req, resp, sent, reported>>

\* Shutdown: the context expires first, s.server.Shutdown returns its error,
\* Shutdown returns it and main calls log.Fatal
DrainTimeout ==
    /\ pc = "draining"
    /\ req.stage = "chain"
    /\ Exit("forced")
    /\ UNCHANGED <<config, db, cursor, tables, router, srv, req, resp, sent, reported>>

(***************************************************************************)
(* Requests.                                                               *)
(***************************************************************************)
Running == pc \in {"waitQuit", "shutdown", "draining"}

CurrentHandler == ChainOf(router, req.path)[req.idx]

InHandler(fn) == Running /\ req.stage = "chain" /\ CurrentHandler.fn = fn

\* the listener accepts a request and the router starts its chain
Receive(path, creds, q) ==
    /\ pc \in {"waitQuit", "shutdown"}
    /\ srv = "listening"
    /\ req.stage = "idle"
    /\ req' = [stage |-> "chain", idx |-> 1, path |-> path, creds |-> creds, query |-> q]
    /\ resp' = NoResponse
    /\ sent' = <<>>
    /\ reported' = "none"
    /\ UNCHANGED <<pc, config, db, cursor, tables, router, srv, hist>>

Respond(r) ==
    /\ resp' = r.resp
    /\ sent' = r.sent
    /\ reported' = r.reported

AuthMiddleware ==
    /\ InHandler("authMiddleware")
    /\ IF authMiddleware(config, req.creds) = "next"
       THEN /\ req' = [req EXCEPT !.idx = @ + 1]
            /\ resp' = resp
       ELSE /\ req' = [req EXCEPT !.stage = "done"]
            /\ resp' = Response(401, ErrorBody("Unauthorized"))
    /\ UNCHANGED <<pc, config, db, cursor, tables, router, srv, sent, reported, hist>>

HandleAPIInfo ==
    /\ InHandler("handleAPIInfo")
    /\ resp' = handleAPIInfo(tables)
    /\ req' = [req EXCEPT !.stage = "done"]
    /\ UNCHANGED <<pc, config, db, cursor, tables, router, srv, sent, reported, hist>>

HandleTableQuery ==
    /\ InHandler("handleTableQuery")
    /\ \E ord \in Perms(DOMAIN req.query), cfault \in FirstRowFaults, dfault \in Faults :
         Respond(handleTableQuery(CurrentHandler.table, req.query, ord, cfault, dfault))
    /\ req' = [req EXCEPT !.stage = "done"]
    /\ UNCHANGED <<pc, config, db, cursor, tables, router, srv, hist>>

HandleRecordQuery ==
    /\ InHandler("handleRecordQuery")
    /\ \E fault \in FirstRowFaults :
         Respond(handleRecordQuery(CurrentHandler.table, req.path[2], fault))
    /\ req' = [req EXCEPT !.stage = "done"]
    /\ UNCHANGED <<pc, config, db, cursor, tables, router, srv, hist>>

\* no route matches: gin's default 404
NotFound ==
    /\ InHandler("notFound")
    /\ resp' = Response(404, ErrorBody("404 page not found"))
    /\ req' = [req EXCEPT !.stage = "done"]
    /\ UNCHANGED <<pc, config, db, cursor, tables, router, srv, sent, reported, hist>>

\* the response has been written and the connection is idle again
Finish ==
    /\ Running
    /\ req.stage = "done"
    /\ req' = IdleRequest
    /\ resp' = NoResponse
    /\ sent' = <<>>
    /\ reported' = "none"
    /\ UNCHANGED <<pc, config, db, cursor, tables, router, srv, hist>>

Next ==
    \/ OpenDatabase
    \/ LoadQuery
    \/ LoadRow
    \/ LoadNextFails
    \/ LoadDone
    \/ SetupRoutes
    \/ StartServing
    \/ Serve
    \/ Signal
    \/ Shutdown
    \/ DrainDone
    \/ DrainTimeout
    \/ \E r \in Requests, creds \in Creds : Receive(r.path, creds, r.query)
    \/ AuthMiddleware
    \/ HandleAPIInfo
    \/ HandleTableQuery
    \/ HandleRecordQuery
    \/ NotFound
    \/ Finish

Spec == Init /\ [][Next]_vars

(***************************************************************************)
(* Two specifications of a server that started without a fault and is      *)
(* listening.  SpecServe: every route, every credential, until shutdown.   *)
(* SpecQuery: no credentials configured, list requests over the whole      *)
(* range of query strings.                                                 *)
(***************************************************************************)
LoadedTables ==
    [i \in 1..Len(TableNames) |-> TableInfo(TableNames[i], Schema(TableNames[i]))]

Listening ==
    /\ pc = "waitQuit"
    /\ db = "open"
    /\ cursor = Len(TableNames) + 1
    /\ tables = LoadedTables
    /\ router = setupRoutes(tables)
    /\ srv = "listening"
    /\ req = IdleRequest
    /\ resp = NoResponse
    /\ sent = <<>>
    /\ reported = "none"
    /\ hist = [NoHistory EXCEPT !.loads = 1]

InitServe ==
    /\ config \in Configs
    /\ Listening

NextServe ==
    \/ \E r \in Requests, creds \in Creds : Receive(r.path, creds, r.query)
    \/ AuthMiddleware
    \/ HandleAPIInfo
    \/ HandleTableQuery
    \/ HandleRecordQuery
    \/ NotFound
    \/ Finish
    \/ Signal
    \/ Shutdown
    \/ DrainDone
    \/ DrainTimeout

SpecServe == InitServe /\ [][NextServe]_vars

InitQuery ==
    /\ config = [Username |-> "", Password |-> ""]
    /\ Listening

NextQuery ==
    \/ \E i \in 1..Len(TableNames), q \in RichQueries :
          Receive(<<TableNames[i]>>, NoCreds, q)
    \/ AuthMiddleware
    \/ HandleTableQuery
    \/ Finish

SpecQuery == InitQuery /\ [][NextQuery]_vars

(***************************************************************************)
(* Properties.                                                             *)
(***************************************************************************)
\* the request has been answered by the handler fn
Handled(fn) == req.stage = "done" /\ CurrentHandler.fn = fn

FilterKeys(q) == { k \in DOMAIN q : k \notin {"limit", "offset", "order"} }

\* the rows of table t that satisfy every filter of q
Matching(t, q) ==
    { i \in 1..Len(Rows(t)) :
        \A k \in FilterKeys(q) :
            /\ k \in ColumnNames(t)
            /\ SqlEq(Rows(t)[i][k], ApplyAffinity(DeclType(t, k), q[k][1])) }

\* C1: the total of a list response is the number of rows of the table that
\* match all the filters of the request, whatever limit and offset are.
C1_TotalIsFilteredCount ==
    (Handled("handleTableQuery") /\ resp.status = 200)
        => resp.body.total = Cardinality(Matching(req.path[1], req.query))

\* C2: every identifier taken from the request (a filter key, the order
\* column) that appears in a SQL text sent to the engine is a column of the
\* table the text selects from.
C2_IdentifiersAreColumns ==
    \A i \in 1..Len(sent) :
        \A j \in 3..Len(sent[i].text) :
            sent[i].text[j].k = "%s"
                => sent[i].text[j].v \in ColumnNames(sent[i].text[2].v)

\* the effective limit and offset expected for each first value of the inputs
WantLimit(q) ==
    IF "limit" \notin DOMAIN q THEN 100
    ELSE CASE q["limit"][1] = "1"   -> 1
           [] q["limit"][1] = "2"   -> 2
           [] q["limit"][1] = "007" -> 7
           [] q["limit"][1] = "+2"  -> 2
           [] OTHER                 -> 100

WantOffset(q) ==
    IF "offset" \notin DOMAIN q THEN 0
    ELSE CASE q["offset"][1] = "1"   -> 1
           [] q["offset"][1] = "2"   -> 2
           [] q["offset"][1] = "007" -> 7
           [] q["offset"][1] = "+2"  -> 2
           [] OTHER                  -> 0

LastFour(text) == SubSeq(text, Len(text) - 3, Len(text))

\* C3: the effective limit is N for a limit that parses as an integer N > 0
\* and 100 otherwise, the effective offset is M for an offset that parses as
\* an integer M >= 0 and 0 otherwise; an error response comes from an engine
\* error only; the response echoes the limit and offset of the LIMIT/OFFSET
\* clause.
C3_Pagination ==
    Handled("handleTableQuery") =>
        /\ resp.status \in {200, 500}
        /\ resp.status = 500 => reported \in {"count", "query", "scan"}
        /\ resp.status = 200 =>
              /\ resp.body.limit = WantLimit(req.query)
              /\ resp.body.offset = WantOffset(req.query)
        /\ Len(sent) = 2 =>
              LastFour(sent[2].text) =
                  << Lit("LIMIT"), Dec(WantLimit(req.query)),
                     Lit("OFFSET"), Dec(WantOffset(req.query)) >>

C3_Witness ==
    /\ Handled("handleTableQuery")
    /\ resp.status = 200
    /\ Query(req.query, "limit") = "-1"
    /\ Query(req.query, "offset") = "+2"
    /\ resp.body.limit = 100
    /\ resp.body.offset = 2

\* the pieces of a list text between the table name and ORDER BY / LIMIT
WherePart(text) ==
    SubSeq(text, 3,
           (CHOOSE e \in 3..Len(text) :
               /\ text[e].k = "lit" /\ text[e].v \in {"ORDER BY", "LIMIT"}
               /\ \A j \in 3..(e - 1) :
                    ~(text[j].k = "lit" /\ text[j].v \in {"ORDER BY", "LIMIT"})) - 1)

WhereShape(q, where, args) ==
    LET n == Cardinality(FilterKeys(q))
    IN  /\ Len(args) = n
        /\ Len(where) = 3 * n
        /\ n > 0 => where[1] = Lit("WHERE")
        /\ \A j \in 1..n :
              /\ where[3 * j - 1].k = "%s"
              /\ where[3 * j] = Lit("= ?")
              /\ j < n => where[3 * j + 1] = Lit("AND")
              /\ args[j] = q[where[3 * j - 1].v][1]
        /\ { where[3 * j - 1].v : j \in 1..n } = FilterKeys(q)

\* C4: every key other than limit, offset and order gives exactly one
\* condition  key = ?, the conditions are joined with AND only, and the i-th
\* argument is the first value of the key of the i-th condition.
C4_Filters ==
    (Handled("handleTableQuery") /\ Len(sent) = 2)
        => WhereShape(req.query, WherePart(sent[2].text), sent[2].args)

C4_Witness ==
    /\ Handled("handleTableQuery")
    /\ resp.status = 200
    /\ FilterKeys(req.query) = {"age", "name"}
    /\ "order" \in DOMAIN req.query
    /\ sent[2].args = <<"Bo", "41">>

\* the rows of table t whose id equals the text id
IdMatches(t, id) ==
    IF "id" \notin ColumnNames(t) THEN <<>>
    ELSE FilterRows(Rows(t), t, <<"id">>, <<id>>)

\* C5: a single-record request that is not answered with an engine error
\* is answered 404 when no row has that id and 200 with the first matching
\* row otherwise; the id is bound as the argument of a lookup on the column id.
C5_RecordLookup ==
    (Handled("handleRecordQuery") /\ resp.status < 500) =>
        /\ sent = << Statement(RecordText(req.path[1]), <<req.path[2]>>) >>
        /\ IdMatches(req.path[1], req.path[2]) = <<>> => resp.status = 404
        /\ IdMatches(req.path[1], req.path[2]) # <<>> =>
              /\ resp.status = 200
              /\ resp.body = Decode(IdMatches(req.path[1], req.path[2])[1])

AuthConfigured == config.Username # "" \/ config.Password # ""

CredsMatch ==
    req.creds.has /\ req.creds.user = config.Username /\ req.creds.pass = config.Password

\* C6: with a username or a password configured, a request without matching
\* credentials never gets past the gate, sends nothing to the database and
\* is answered 401; with neither configured every request reaches its
\* handler; the gate is the first handler of every route.
C6_AuthGate ==
    /\ \A r \in DOMAIN router.trees : router.trees[r][1].fn = "authMiddleware"
    /\ (req.stage # "idle" /\ AuthConfigured /\ ~CredsMatch) =>
          /\ CurrentHandler.fn = "authMiddleware"
          /\ sent = <<>>
          /\ req.stage = "done" => resp.status = 401
    /\ (req.stage = "done" /\ ~AuthConfigured) =>
          /\ CurrentHandler.fn # "authMiddleware"
          /\ resp.status # 401

C6_Witness ==
    /\ config = [Username |-> "admin", Password |-> "secret"]
    /\ req.creds = [has |-> TRUE, user |-> "admin", pass |-> ""]
    /\ req.path = <<"users", "1">>
    /\ req.stage = "done"
    /\ resp.status = 401

\* C7: when an introspection step has failed, NewAPIServer does not return
\* a server: no routes are registered and nothing is served.
C7_IntrospectionFailureAborts ==
    hist.loadFaults > 0 =>
        /\ pc \in {"loadRows", "setupRoutes", "exited"}
        /\ srv = "none"

\* C8: whenever the engine reported an error for a query of the request, the
\* response is a 5xx error response.
C8_EngineErrorsSurface ==
    (req.stage = "done" /\ reported # "none") => resp.status >= 500

\* C9: once Shutdown has stopped the listener and the process has exited,
\* the database connection has been closed, also when the grace period
\* expired before the requests in flight finished.
C9_ClosedOnEveryExit ==
    (pc = "exited" /\ hist.exit \in {"drained", "forced"}) => db = "closed"

HasPrefix(cs, prefix) ==
    Len(cs) >= Len(prefix) /\ SubSeq(cs, 1, Len(prefix)) = prefix

Loading == pc \in {"start", "loadTableInfo", "loadRows"}

C10_State ==
    /\ hist.loads <= 1
    /\ ~Loading => (hist.exit # "none" \/ hist.loads = 1)
    /\ (Loading \/ pc = "setupRoutes") =>
          /\ router = NewRouter
          /\ srv = "none"
          /\ req.stage = "idle"
    /\ Handled("handleAPIInfo") => resp.body.tables = tables
    /\ \A i \in 1..Len(tables) :
          ~HasPrefix(Chars(tables[i].Name), Chars("sqlite_"))

\* the catalog never changes after construction, the info route returns it
\* as it is, and it holds no table whose name starts with sqlite_
C10_CatalogFrozen ==
    /\ []C10_State
    /\ [][~Loading => tables' = tables]_vars

\* once loadTableInfo has returned without an error the catalog holds every
\* table of the database with all of its columns
C10_Complete ==
    (~Loading /\ hist.exit # "startup") => tables = LoadedTables

\* C10: the catalog is built once and completely, before routes are
\* registered and before the first request; afterwards no step changes it,
\* the info route returns it as it is, and it holds no table whose name
\* starts with sqlite_.
C10_CatalogBuiltOnce ==
    /\ []C10_State
    /\ []C10_Complete
    /\ [][~Loading => tables' = tables]_vars

====
